---- MODULE Spec2Model ----
(***************************************************************************)
(* Model of PerkinElmerEnvisionParser                                      *)
(* (src/allotropy/parsers/perkin_elmer_envision/                           *)
(*  perkin_elmer_envision_parser.py): the conversion of a RunData          *)
(* intermediate model into the plate-reader document.                      *)
(*                                                                         *)
(* Representation of Python values:                                        *)
(*   None            the empty tuple <<>>  (Optional[T]: <<>> or <<v>>)    *)
(*   str             a tuple of one-character strings (label names), or an *)
(*                   opaque TLA+ string where only equality matters        *)
(*   f"{a} {b}"      the tuple of the formatted parts                      *)
(*   column, row     their rank in Python's ordering of the raw values     *)
(*   timestamps      their rank in Python's ordering of the raw values     *)
(***************************************************************************)
EXTENDS Integers, Sequences, FiniteSets, TLC

VARIABLES
    data,                   \* the RunData handed to _get_model (input)
    pc,                     \* position inside _parse / _get_model
    run,                    \* number of the conversion in progress
    measurement_time,       \* local of _get_plate_reader_document
    read_type,              \* local of _get_plate_reader_document
    plate_idx,              \* index of the next plate of `for plate in data.plates`
    measurement_docs_dict,  \* the defaultdict(list), in insertion order
    items,                  \* the list _get_plate_reader_document returns
    uuid_counter,           \* number of uuid.uuid4() calls made so far
    raised,                 \* the exception in flight inside the try block
    model,                  \* what _get_model returned
    parsed,                 \* what the caller of _parse receives
    first                   \* outcome of the previous conversion of `data`

vars == <<data, pc, run, measurement_time, read_type, plate_idx,
          measurement_docs_dict, items, uuid_counter, raised, model, parsed,
          first>>

----------------------------------------------------------------------------
(* Bounds of the model *)

MaxPlates == 2

MaxResults == 2

MaxLabelParts == 2

----------------------------------------------------------------------------
(* Optional values *)

None == <<>>

Some(v) == <<v>>

IsNone(x) == x = None

Value(x) == x[1]

----------------------------------------------------------------------------
(* ReadType and the constants of the output document *)

ABSORBANCE == "Absorbance"

FLUORESCENCE == "Fluorescence"

LUMINESCENCE == "Luminescence"

ReadType == {ABSORBANCE, FLUORESCENCE, LUMINESCENCE}

ManifestUri == "http://purl.allotrope.org/manifests/plate-reader/BENCHLING/2023/09/plate-reader.manifest"

----------------------------------------------------------------------------
(* safe_value: None stays None, any other value (zero included) is wrapped *)

safe_value_truthy(cls, value) ==
    IF IsNone(value) \/ value = Some(0) THEN None
    ELSE Some([unit |-> cls, value |-> Value(value)])

safe_value(cls, value) ==
    IF IsNone(value) THEN None
    ELSE Some([unit |-> cls, value |-> Value(value)])

----------------------------------------------------------------------------
(* _get_read_type: label names are tuples of characters *)

PatABS == <<"A", "B", "S">>

PatAbsorbance == <<"A", "b", "s", "o", "r", "b", "a", "n", "c", "e">>

PatLUM == <<"L", "U", "M">>

PatLuminescence == <<"L", "u", "m", "i", "n", "e", "s", "c", "e", "n", "c", "e">>

PatFluorescence == <<"F", "l", "u", "o", "r", "e", "s", "c", "e", "n", "c", "e">>

\* the dict `patterns`, in insertion order (the order `for key in patterns` visits)
patterns_reordered ==
    << [key |-> PatLUM,          value |-> LUMINESCENCE],
       [key |-> PatLuminescence, value |-> LUMINESCENCE],
       [key |-> PatABS,          value |-> ABSORBANCE],
       [key |-> PatAbsorbance,   value |-> ABSORBANCE],
       [key |-> PatFluorescence, value |-> FLUORESCENCE] >>

patterns ==
    << [key |-> PatABS,          value |-> ABSORBANCE],
       [key |-> PatAbsorbance,   value |-> ABSORBANCE],
       [key |-> PatLUM,          value |-> LUMINESCENCE],
       [key |-> PatLuminescence, value |-> LUMINESCENCE],
       [key |-> PatFluorescence, value |-> FLUORESCENCE] >>

\* Python's `key in s` on str: key occurs as a contiguous run of s
StrIn(key, s) ==
    \E off \in 0..(Len(s) - Len(key)) :
        \A k \in 1..Len(key) : s[off + k] = key[k]

RECURSIVE ScanPatterns(_, _)
ScanPatterns(i, label) ==
    IF i > Len(patterns) THEN FLUORESCENCE
    ELSE IF StrIn(patterns[i].key, label) THEN patterns[i].value
    ELSE ScanPatterns(i + 1, label)

get_read_type(d) == ScanPatterns(1, d.labels.label)

----------------------------------------------------------------------------
(* _get_measurement_time *)

\* VendorParser.get_date_time: the canonical TDateTimeValue of a raw timestamp
get_date_time(t) == [cls |-> "TDateTimeValue", value |-> t]

\* lines 125-129: the timestamps that are set (line 128 keeps the truthy ones;
\* a timestamp that is present is a non-empty value)
RECURSIVE Dates(_, _)
Dates(plates, i) ==
    IF i > Len(plates) THEN <<>>
    ELSE IF IsNone(plates[i].plate_info.measurement_time)
         THEN Dates(plates, i + 1)
         ELSE <<Value(plates[i].plate_info.measurement_time)>>
              \o Dates(plates, i + 1)

SeqRange(s) == {s[i] : i \in 1..Len(s)}

MinOf(s) == CHOOSE m \in SeqRange(s) : \A x \in SeqRange(s) : m <= x

\* the first date in plate order instead of the least one
get_measurement_time_first(d) ==
    IF Dates(d.plates, 1) # <<>>
    THEN Some(get_date_time(Dates(d.plates, 1)[1]))
    ELSE None

\* None stands for the raise of line 135
get_measurement_time(d) ==
    IF Dates(d.plates, 1) # <<>>
    THEN Some(get_date_time(MinOf(Dates(d.plates, 1))))
    ELSE None

MissingMeasurementTime ==
    [cls |-> "AllotropyError", msg |-> <<"Unable to find valid measurement date">>,
     cause |-> None]

MissingWellCount ==
    [cls |-> "AllotropyError",
     msg |-> <<"Unable to get number of the wells in the plate">>, cause |-> None]

\* the message naming the plate number instead of the barcode
MissingPlateMap_number(plate) ==
    [cls |-> "AllotropyError",
     msg |-> <<"Unable to find plate map of ", <<"PLT", plate.plate_info.number>> >>,
     cause |-> Some("KeyError")]

MissingPlateMap(plate) ==
    [cls |-> "AllotropyError",
     msg |-> <<"Unable to find plate map of ", plate.plate_info.barcode>>,
     cause |-> Some("KeyError")]

----------------------------------------------------------------------------
(* _get_device_control_aggregate_document *)

\* Labels.get_emission_filter: the filter registered under the id, or None
get_emission_filter(labels, id) ==
    IF id \in DOMAIN labels.filters THEN Some(labels.filters[id]) ELSE None

\* `f.wavelength if f else None`
Wavelength(f) == IF IsNone(f) THEN None ELSE Some(Value(f).wavelength)

Bandwidth(f) == IF IsNone(f) THEN None ELSE Some(Value(f).bandwidth)

DeviceControlItem(d, plate, em_filter, cls, device_type) ==
    [cls |-> cls,
     device_type |-> device_type,
     detector_distance_setting__plate_reader_ |->
         safe_value("TQuantityValueMillimeter", plate.plate_info.measured_height),
     number_of_averages |->
         safe_value("TQuantityValueNumber", d.labels.number_of_flashes),
     detector_gain_setting |-> d.labels.detector_gain_setting,
     scan_position_setting__plate_reader_ |-> d.labels.scan_position_setting,
     detector_wavelength_setting |->
         safe_value("TQuantityValueNanometer", Wavelength(em_filter)),
     detector_bandwidth_setting |->
         safe_value("TQuantityValueNanometer", Bandwidth(em_filter))]

get_device_control_aggregate_document(d, plate, rt) ==
    LET ex_filter == d.labels.excitation_filter
        em_filter == get_emission_filter(d.labels,
                                         plate.plate_info.emission_filter_id)
    IN  IF rt = LUMINESCENCE THEN
            [cls |-> "LuminescencePointDetectionDeviceControlAggregateDocument",
             device_control_document |->
                 << DeviceControlItem(d, plate, em_filter,
                        "LuminescencePointDetectionDeviceControlDocumentItem",
                        "luminescence detector") >>]
        ELSE IF rt = ABSORBANCE THEN
            [cls |-> "UltravioletAbsorbancePointDetectionDeviceControlAggregateDocument",
             device_control_document |->
                 << DeviceControlItem(d, plate, em_filter,
                        "UltravioletAbsorbancePointDetectionDeviceControlDocumentItem",
                        "absorbance detector") >>]
        ELSE
            [cls |-> "FluorescencePointDetectionDeviceControlAggregateDocument",
             device_control_document |->
                 << [f \in {"excitation_wavelength_setting",
                            "excitation_bandwidth_setting"}
                        |-> IF f = "excitation_wavelength_setting"
                            THEN safe_value("TQuantityValueNanometer",
                                            Wavelength(ex_filter))
                            ELSE safe_value("TQuantityValueNanometer",
                                            Bandwidth(ex_filter))]
                    @@ DeviceControlItem(d, plate, em_filter,
                        "FluorescencePointDetectionDeviceControlDocumentItem",
                        "fluorescence detector") >>]

----------------------------------------------------------------------------
(* _get_measurement_document *)

\* PlateMap.get_sample_role_type(col, row).value
get_sample_role_type(p_map, col, row) == p_map[<<col, row>>]

get_measurement_document(plate, result, p_map, device_control_document, rt, id) ==
    LET plate_barcode == plate.plate_info.barcode
        well_location == <<result.col, result.row>>
        sample_document ==
            [sample_identifier |-> <<plate_barcode, " ">> \o well_location,
             well_plate_identifier |-> plate_barcode,
             location_identifier |-> well_location,
             sample_role_type |-> get_sample_role_type(p_map, result.col, result.row)]
        compartment_temperature ==
            safe_value("TQuantityValueDegreeCelsius",
                       plate.plate_info.chamber_temperature_at_start)
        doc(cls, agg, field, unit) ==
            [cls |-> cls,
             measurement_identifier |-> id,
             sample_document |-> sample_document,
             device_control_aggregate_document |->
                 [cls |-> agg, device_control_document |-> device_control_document],
             reading |-> [field |-> field, unit |-> unit, value |-> result.value],
             compartment_temperature |-> compartment_temperature]
    IN  IF rt = ABSORBANCE THEN
            doc("UltravioletAbsorbancePointDetectionMeasurementDocumentItems",
                "UltravioletAbsorbancePointDetectionDeviceControlAggregateDocument",
                "absorbance", "TQuantityValueMilliAbsorbanceUnit")
        ELSE IF rt = LUMINESCENCE THEN
            doc("LuminescencePointDetectionMeasurementDocumentItems",
                "LuminescencePointDetectionDeviceControlAggregateDocument",
                "luminescence", "TRelativeLightUnit")
        ELSE
            doc("FluorescencePointDetectionMeasurementDocumentItems",
                "FluorescencePointDetectionDeviceControlAggregateDocument",
                "fluorescence", "TRelativeFluorescenceUnit")

----------------------------------------------------------------------------
(* The grouping accumulator measurement_docs_dict: a defaultdict(list), kept *)
(* as the sequence of its (key, list) entries in insertion order            *)

new_dict_shared == measurement_docs_dict

\* line 294: a fresh defaultdict(list) per call
new_dict == <<>>

Keys(dict) == [i \in 1..Len(dict) |-> dict[i].key]

HasKey(dict, key) == \E i \in 1..Len(dict) : dict[i].key = key

\* dict[key], for a key of the dict
Lookup(dict, key) == dict[CHOOSE i \in 1..Len(dict) : dict[i].key = key].docs

\* dict[key] = [doc]: a second list under a key replaces the first
dict_append_overwrite(dict, key, doc) ==
    IF HasKey(dict, key)
    THEN [i \in 1..Len(dict) |->
             IF dict[i].key = key THEN [key |-> key, docs |-> <<doc>>]
             ELSE dict[i]]
    ELSE Append(dict, [key |-> key, docs |-> <<doc>>])

\* dict[key].append(doc)
dict_append(dict, key, doc) ==
    IF HasKey(dict, key)
    THEN [i \in 1..Len(dict) |->
             IF dict[i].key = key
             THEN [key |-> key, docs |-> Append(dict[i].docs, doc)]
             ELSE dict[i]]
    ELSE Append(dict, [key |-> key, docs |-> <<doc>>])

\* Python's order of the tuples (plate number, col, row)
TupleLess(a, b) ==
    \/ a[1] < b[1]
    \/ a[1] = b[1] /\ a[2] < b[2]
    \/ a[1] = b[1] /\ a[2] = b[2] /\ a[3] < b[3]

RECURSIVE Insert(_, _)
Insert(key, s) ==
    IF s = <<>> THEN <<key>>
    ELSE IF TupleLess(key, Head(s)) THEN <<key>> \o s
    ELSE <<Head(s)>> \o Insert(key, Tail(s))

RECURSIVE InsertionSort(_)
InsertionSort(s) ==
    IF s = <<>> THEN <<>> ELSE Insert(Head(s), InsertionSort(Tail(s)))

\* the keys as the dict holds them
unsorted(keys) == keys

\* line 326: sorted(measurement_docs_dict.keys())
sorted(keys) == InsertionSort(keys)

----------------------------------------------------------------------------
(* The body of `for plate in data.plates` *)

ResultsOf(plate) == IF IsNone(plate.results) THEN <<>> ELSE Value(plate.results)

never_absent(plate) == FALSE

\* line 297: plate.results is None
results_absent(plate) == IsNone(plate.results)

\* line 301: data.plate_maps[number] raises KeyError
plate_map_missing(d, plate) == plate.plate_info.number \notin DOMAIN d.plate_maps

WellKey(plate, result) == <<plate.plate_info.number, result.col, result.row>>

\* lines 310-324: one measurement per result, appended under its well key;
\* `id` is the number of uuid4() calls made before the loop
RECURSIVE AppendResults(_, _, _, _, _, _, _)
AppendResults(dict, plate, p_map, dcd, rt, j, id) ==
    IF j > Len(ResultsOf(plate)) THEN dict
    ELSE AppendResults(
             dict_append(dict, WellKey(plate, ResultsOf(plate)[j]),
                         get_measurement_document(plate, ResultsOf(plate)[j],
                                                  p_map, dcd, rt, id + j)),
             plate, p_map, dcd, rt, j + 1, id)

\* lines 326-340
PlateReaderDocumentItem(d, time, docs) ==
    [measurement_aggregate_document |->
        [measurement_time |-> time,
         plate_well_count |->
             [unit |-> "TQuantityValueNumber", value |-> Value(d.number_of_wells)],
         measurement_document |-> docs,
         analytical_method_identifier |-> d.basic_assay_info.protocol_id,
         experimental_data_identifier |-> d.basic_assay_info.assay_id,
         container_type |-> "well plate"]]

Materialized(d, time, dict) ==
    LET order == sorted(Keys(dict))
    IN  [i \in 1..Len(order) |->
            PlateReaderDocumentItem(d, time, Lookup(dict, order[i]))]

filename == "export.csv"

\* lines 88-105
Model(d, plate_reader_document) ==
    [plate_reader_aggregate_document |->
        [plate_reader_document |-> plate_reader_document,
         data_system_document |->
            [file_name |-> filename,
             software_name |-> d.software.software_name,
             software_version |-> d.software.software_version,
             ASM_converter_name |-> "ASM_CONVERTER_NAME",
             ASM_converter_version |-> "ASM_CONVERTER_VERSION"],
         device_system_document |->
            [model_number |-> "EnVision",
             equipment_serial_number |-> d.instrument.serial_number,
             device_identifier |-> d.instrument.nickname]],
     field_asm_manifest |-> ManifestUri]

----------------------------------------------------------------------------
(* The RunData inputs the model ranges over *)

PlateNumbers == {1, 2}

\* (col, row) pairs: <<1, 2>> sorts before <<2, 1>> by column, after it by row
GroupWells == {<<1, 2>>, <<2, 1>>}

AllWells == {1, 2} \X {1, 2}

Times == {1, 2, 3}

\* the role the plate map of plate number n gives each well
PlateMapOf(n) ==
    [w \in AllWells |-> IF w[1] = n THEN "sample role" ELSE "blank role"]

PlateMapTables(numbers) ==
    {[n \in dom |-> PlateMapOf(n)] : dom \in SUBSET numbers}

Filter(wavelength, bandwidth) == [wavelength |-> wavelength, bandwidth |-> bandwidth]

\* emission filters by id: a filter at 0 nm and id 2 unresolved; both ids
\* resolved, one with bandwidth 0; no filter at all
FilterTables ==
    { (1 :> Filter(0, 8)),
      (1 :> Filter(450, 0)) @@ (2 :> Filter(620, 10)),
      <<>> }

BarcodeOf(i) == <<"PLT", i>>

WellSeqs(wells, lo) == UNION {[1..n -> wells] : n \in lo..MaxResults}

OptResults(wells) == {None} \cup {Some(w) : w \in WellSeqs(wells, 0)}

\* the i-th plate of the run: its barcode and its readings are its own
MkPlate(i, shape) ==
    [plate_info |->
        [number |-> shape.number,
         barcode |-> BarcodeOf(i),
         measured_height |-> shape.measured_height,
         chamber_temperature_at_start |-> IF i = 1 THEN Some(22) ELSE None,
         measurement_time |-> shape.measurement_time,
         emission_filter_id |-> shape.emission_filter_id],
     results |->
        IF IsNone(shape.wells) THEN None
        ELSE Some([j \in 1..Len(Value(shape.wells)) |->
                      [col |-> Value(shape.wells)[j][1],
                       row |-> Value(shape.wells)[j][2],
                       value |-> 10 * i + j]])]

PlateSeqs(shapes) ==
    {[i \in 1..Len(sh) |-> MkPlate(i, sh[i])] :
        sh \in UNION {[1..n -> shapes] : n \in 0..MaxPlates}}

MkLabels(label, excitation_filter, filters) ==
    [label |-> label,
     excitation_filter |-> excitation_filter,
     filters |-> filters,
     number_of_flashes |-> IF excitation_filter = None THEN None ELSE Some(0),
     detector_gain_setting |-> "gain",
     scan_position_setting |-> "top"]

MkData(number_of_wells, plates, plate_maps, labels) ==
    [number_of_wells |-> number_of_wells,
     plates |-> plates,
     plate_maps |-> plate_maps,
     labels |-> labels,
     software |-> [software_name |-> "EnVision Workstation",
                   software_version |-> "1.0"],
     instrument |-> [serial_number |-> "1050209", nickname |-> "EnVision"],
     basic_assay_info |-> [protocol_id |-> "100302", assay_id |-> "3134"]]

WellCounts == {None, Some(96)}

LabelABS == PatABS \o <<" ", "4", "5", "0">>

LabelLUM == <<"U", "S", " ">> \o PatLUM

LabelOther == <<"A", "l", "p", "h", "a">>

PlainLabels == MkLabels(LabelABS, None, (1 :> Filter(450, 8)))

GroupShapes ==
    [number : PlateNumbers, measurement_time : {Some(1)},
     emission_filter_id : {1}, measured_height : {Some(5)},
     wells : OptResults(GroupWells)]

TimeShapes ==
    [number : {1}, measurement_time : {None} \cup {Some(t) : t \in Times},
     emission_filter_id : {1}, measured_height : {Some(5)},
     wells : {None, Some(<< <<1, 1>> >>)}]

DeviceShapes ==
    [number : {1}, measurement_time : {Some(1)},
     emission_filter_id : {1, 2}, measured_height : {Some(0)},
     wells : {None} \cup {Some(w) : w \in WellSeqs({<<1, 1>>}, 1)}]

DeviceLabels ==
    {MkLabels(l, ex, f) :
        l \in {LabelABS, LabelLUM, LabelOther},
        ex \in {None, Some(Filter(340, 30))},
        f \in FilterTables}

\* label names: up to MaxLabelParts fragments written one after the other
Fragments ==
    { PatABS, PatAbsorbance, PatLUM, PatLuminescence, PatFluorescence,
      <<"a", "b", "s">>, <<"A", "B">>, <<"S">>, <<"L", "u", "m">>, <<" ">> }

RECURSIVE Concat(_)
Concat(parts) == IF parts = <<>> THEN <<>> ELSE Head(parts) \o Concat(Tail(parts))

LabelNames ==
    {Concat(parts) : parts \in UNION {[1..n -> Fragments] : n \in 0..MaxLabelParts}}

ReadTypeShapes ==
    [number : {1}, measurement_time : {Some(1)},
     emission_filter_id : {1}, measured_height : {Some(5)},
     wells : {None, Some(<< <<1, 1>> >>)}]

MapShapes ==
    [number : PlateNumbers, measurement_time : {Some(1)},
     emission_filter_id : {1}, measured_height : {Some(5)},
     wells : {None} \cup {Some(w) : w \in WellSeqs({<<1, 1>>}, 0)}]

----------------------------------------------------------------------------
(* The state machine: one conversion is one call of _parse *)

\* the RunData of every combination of the given parts
Inputs(counts, shapes, tables, labels) ==
    {MkData(n, p, m, l) :
        n \in counts, p \in PlateSeqs(shapes), m \in tables, l \in labels}

InitWith(inputs) ==
    /\ data \in inputs
    /\ pc = "parse"
    /\ run = 1
    /\ measurement_time = None
    /\ read_type = None
    /\ plate_idx = 1
    /\ measurement_docs_dict = <<>>
    /\ items = <<>>
    /\ uuid_counter = 0
    /\ raised = None
    /\ model = None
    /\ parsed = None
    /\ first = None

\* the inputs of the properties of the measurement time and the well count
InitTime ==
    InitWith(Inputs(WellCounts, TimeShapes, PlateMapTables({1}), {PlainLabels}))

\* the inputs of the grouping: every grouping shape with a plate map for each
\* plate number and, for the failures, the inputs of InitTime
Init ==
    \/ InitWith(Inputs({Some(96)}, GroupShapes,
                       {[n \in PlateNumbers |-> PlateMapOf(n)]}, {PlainLabels}))
    \/ InitTime

InitDevice ==
    InitWith(Inputs(WellCounts, DeviceShapes, PlateMapTables({1}), DeviceLabels))

InitReadType ==
    InitWith(Inputs(WellCounts, ReadTypeShapes, PlateMapTables({1}),
                    {MkLabels(l, None, (1 :> Filter(450, 8))) : l \in LabelNames}))

InitMaps ==
    InitWith(Inputs(WellCounts, MapShapes, PlateMapTables(PlateNumbers),
                    {MkLabels(l, None, (1 :> Filter(450, 8))) :
                        l \in {LabelABS, LabelOther}}))

InitTwice == InitMaps

UpstreamError == [cls |-> "Exception", msg |-> <<"malformed input">>, cause |-> None]

\* line 79: Data.create(reader) raises on malformed input
CreateFails ==
    /\ pc = "parse"
    /\ raised' = Some(UpstreamError)
    /\ pc' = "except"
    /\ UNCHANGED <<data, run, measurement_time, read_type, plate_idx,
                   measurement_docs_dict, items, uuid_counter, model, parsed, first>>

\* line 79: Data.create(reader) returns the RunData; _get_model is entered
CreateReturns ==
    /\ pc = "parse"
    /\ pc' = "get_model"
    /\ UNCHANGED <<data, run, measurement_time, read_type, plate_idx,
                   measurement_docs_dict, items, uuid_counter, raised, model,
                   parsed, first>>

well_count_never_missing(d) == FALSE

\* line 84
well_count_missing(d) == IsNone(d.number_of_wells)

\* lines 84-86
WellCountRaises ==
    /\ pc = "get_model"
    /\ well_count_missing(data)
    /\ raised' = Some(MissingWellCount)
    /\ pc' = "except"
    /\ UNCHANGED <<data, run, measurement_time, read_type, plate_idx,
                   measurement_docs_dict, items, uuid_counter, model, parsed, first>>

\* line 90: _get_plate_reader_document is called
EnterPlateReaderDocument ==
    /\ pc = "get_model"
    /\ ~well_count_missing(data)
    /\ pc' = "measurement_time"
    /\ UNCHANGED <<data, run, measurement_time, read_type, plate_idx,
                   measurement_docs_dict, items, uuid_counter, raised, model,
                   parsed, first>>

\* lines 290-291, _get_measurement_time raising
MeasurementTimeRaises ==
    /\ pc = "measurement_time"
    /\ IsNone(get_measurement_time(data))
    /\ items' = <<>>
    /\ raised' = Some(MissingMeasurementTime)
    /\ pc' = "except"
    /\ UNCHANGED <<data, run, measurement_time, read_type, plate_idx,
                   measurement_docs_dict, uuid_counter, model, parsed, first>>

\* lines 290-291, _get_measurement_time returning
ResolveMeasurementTime ==
    /\ pc = "measurement_time"
    /\ ~IsNone(get_measurement_time(data))
    /\ items' = <<>>
    /\ measurement_time' = get_measurement_time(data)
    /\ pc' = "read_type"
    /\ UNCHANGED <<data, run, read_type, plate_idx, measurement_docs_dict,
                   uuid_counter, raised, model, parsed, first>>

\* lines 292-294
ClassifyReadType ==
    /\ pc = "read_type"
    /\ read_type' = Some(get_read_type(data))
    /\ measurement_docs_dict' = new_dict
    /\ plate_idx' = 1
    /\ pc' = "plates"
    /\ UNCHANGED <<data, run, measurement_time, items, uuid_counter, raised,
                   model, parsed, first>>

CurrentPlate == data.plates[plate_idx]

\* lines 296-298
SkipPlate ==
    /\ pc = "plates"
    /\ plate_idx <= Len(data.plates)
    /\ results_absent(CurrentPlate)
    /\ plate_idx' = plate_idx + 1
    /\ UNCHANGED <<data, pc, run, measurement_time, read_type,
                   measurement_docs_dict, items, uuid_counter, raised, model,
                   parsed, first>>

\* lines 300-304
PlateMapRaises ==
    /\ pc = "plates"
    /\ plate_idx <= Len(data.plates)
    /\ ~results_absent(CurrentPlate)
    /\ plate_map_missing(data, CurrentPlate)
    /\ raised' = Some(MissingPlateMap(CurrentPlate))
    /\ pc' = "except"
    /\ UNCHANGED <<data, run, measurement_time, read_type, plate_idx,
                   measurement_docs_dict, items, uuid_counter, model, parsed, first>>

\* lines 300-324
ProcessPlate ==
    /\ pc = "plates"
    /\ plate_idx <= Len(data.plates)
    /\ ~results_absent(CurrentPlate)
    /\ ~plate_map_missing(data, CurrentPlate)
    /\ LET p_map == data.plate_maps[CurrentPlate.plate_info.number]
           device_control_aggregate_document ==
               get_device_control_aggregate_document(data, CurrentPlate,
                                                     Value(read_type))
       IN  measurement_docs_dict' =
               AppendResults(measurement_docs_dict, CurrentPlate, p_map,
                   device_control_aggregate_document.device_control_document,
                   Value(read_type), 1, uuid_counter)
    /\ uuid_counter' = uuid_counter + Len(ResultsOf(CurrentPlate))
    /\ plate_idx' = plate_idx + 1
    /\ UNCHANGED <<data, pc, run, measurement_time, read_type, items, raised,
                   model, parsed, first>>

\* lines 326-342
Materialize ==
    /\ pc = "plates"
    /\ plate_idx > Len(data.plates)
    /\ items' = Materialized(data, Value(measurement_time), measurement_docs_dict)
    /\ pc' = "return"
    /\ UNCHANGED <<data, run, measurement_time, read_type, plate_idx,
                   measurement_docs_dict, uuid_counter, raised, model, parsed, first>>

\* lines 88-105 and line 79: the Model is returned to the caller of _parse
ReturnModel ==
    /\ pc = "return"
    /\ model' = Some(Model(data, items))
    /\ parsed' = Some([kind |-> "model", value |-> Model(data, items)])
    /\ pc' = "done"
    /\ UNCHANGED <<data, run, measurement_time, read_type, plate_idx,
                   measurement_docs_dict, items, uuid_counter, raised, first>>

\* lines 80-81: raise AllotropyError from error
wrap(error) == [cls |-> "AllotropyError", msg |-> <<>>, cause |-> Some(error)]

ExceptHandler ==
    /\ pc = "except"
    /\ parsed' = Some([kind |-> "error", value |-> wrap(Value(raised))])
    /\ pc' = "done"
    /\ UNCHANGED <<data, run, measurement_time, read_type, plate_idx,
                   measurement_docs_dict, items, uuid_counter, raised, model, first>>

\* the same RunData is converted a second time (a new call of _get_model):
\* the new call starts with no local bound; what lines 290 and 294 create is
\* assigned when the call reaches them
ConvertAgain ==
    /\ pc = "done"
    /\ run = 1
    /\ raised # Some(UpstreamError)
    /\ first' = Some([raised |-> raised, model |-> model, parsed |-> parsed])
    /\ run' = 2
    /\ pc' = "get_model"
    /\ measurement_time' = None
    /\ read_type' = None
    /\ plate_idx' = 1
    /\ raised' = None
    /\ model' = None
    /\ parsed' = None
    /\ UNCHANGED <<data, measurement_docs_dict, items, uuid_counter>>

Next ==
    \/ CreateFails
    \/ CreateReturns
    \/ WellCountRaises
    \/ EnterPlateReaderDocument
    \/ MeasurementTimeRaises
    \/ ResolveMeasurementTime
    \/ ClassifyReadType
    \/ SkipPlate
    \/ PlateMapRaises
    \/ ProcessPlate
    \/ Materialize
    \/ ReturnModel
    \/ ExceptHandler

NextTwice == Next \/ ConvertAgain

Spec == Init /\ [][Next]_vars

SpecTime == InitTime /\ [][Next]_vars

SpecDevice == InitDevice /\ [][Next]_vars

SpecReadType == InitReadType /\ [][Next]_vars

SpecMaps == InitMaps /\ [][Next]_vars

SpecTwice == InitTwice /\ [][NextTwice]_vars

----------------------------------------------------------------------------
(* Vocabulary of the properties *)

\* _get_model ran on a RunData (Data.create did not raise)
Created == raised # Some(UpstreamError)

Returned == model # None

Output == Value(model).plate_reader_aggregate_document.plate_reader_document

DocsOf(item) == item.measurement_aggregate_document.measurement_document

\* the plate a measurement record was built from (barcodes are <<"PLT", i>>)
PlateOfDoc(doc) == data.plates[doc.sample_document.well_plate_identifier[2]]

DocKey(doc) ==
    <<PlateOfDoc(doc).plate_info.number,
      doc.sample_document.location_identifier[1],
      doc.sample_document.location_identifier[2]>>

ItemKey(item) == DocKey(DocsOf(item)[1])

LexLess(a, b) ==
    \E n \in 1..3 : (\A m \in 1..(n - 1) : a[m] = b[m]) /\ a[n] < b[n]

Timed == {i \in 1..Len(data.plates) :
             data.plates[i].plate_info.measurement_time # None}

WithResults == {i \in 1..Len(data.plates) : data.plates[i].results # None}

Unmapped == {i \in WithResults :
                data.plates[i].plate_info.number \notin DOMAIN data.plate_maps}

\* every Result of the run: plate order, then result order
RECURSIVE AllResults(_)
AllResults(i) ==
    IF i > Len(data.plates) THEN <<>>
    ELSE (IF data.plates[i].results = None THEN <<>>
          ELSE [j \in 1..Len(data.plates[i].results[1]) |->
                   [key |-> <<data.plates[i].plate_info.number,
                              data.plates[i].results[1][j].col,
                              data.plates[i].results[1][j].row>>,
                    barcode |-> data.plates[i].plate_info.barcode,
                    value |-> data.plates[i].results[1][j].value]])
         \o AllResults(i + 1)

ResultsWithKey(k) == SelectSeq(AllResults(1), LAMBDA e : e.key = k)

Projection(docs) ==
    [j \in 1..Len(docs) |->
        [key |-> DocKey(docs[j]),
         barcode |-> docs[j].sample_document.well_plate_identifier,
         value |-> docs[j].reading.value]]

RECURSIVE AllDocs(_, _)
AllDocs(out, i) ==
    IF i > Len(out) THEN <<>> ELSE DocsOf(out[i]) \o AllDocs(out, i + 1)

----------------------------------------------------------------------------
(* C1: the returned WellDocuments are in strictly ascending lexicographic   *)
(* order of their well key (plate_number, column, row), whatever the order  *)
(* in which the keys entered the accumulator.                               *)
C1_OutputSorted ==
    Returned =>
        \A i \in 1..(Len(Output) - 1) :
            LexLess(ItemKey(Output[i]), ItemKey(Output[i + 1]))

\* three wells were returned, and the accumulator holds them in another order
C1_Witness ==
    /\ pc = "done" /\ Returned /\ Len(Output) >= 3
    /\ Keys(measurement_docs_dict) # [i \in 1..Len(Output) |-> ItemKey(Output[i])]

(* C2: the output has exactly one WellDocument per distinct key among the   *)
(* Results of the plates with a result list; the measurements of the        *)
(* WellDocument of key k are those built from the Results of key k, in      *)
(* plate order then result order; no measurement is lost or duplicated.     *)
C2_OnePerKeyInOrder ==
    Returned =>
        /\ {ItemKey(Output[i]) : i \in 1..Len(Output)}
               = {AllResults(1)[n].key : n \in 1..Len(AllResults(1))}
        /\ \A i, j \in 1..Len(Output) :
               ItemKey(Output[i]) = ItemKey(Output[j]) => i = j
        /\ \A i \in 1..Len(Output) :
               Projection(DocsOf(Output[i])) = ResultsWithKey(ItemKey(Output[i]))
        /\ Len(AllDocs(Output, 1)) = Len(AllResults(1))
        /\ \A a, b \in 1..Len(AllDocs(Output, 1)) :
               AllDocs(Output, 1)[a].measurement_identifier
                   = AllDocs(Output, 1)[b].measurement_identifier => a = b

\* two plates with the same plate number both contributed to one well
C2_Witness ==
    /\ pc = "done" /\ Returned
    /\ \E i \in 1..Len(Output) :
           /\ Len(DocsOf(Output[i])) >= 3
           /\ DocsOf(Output[i])[1].sample_document.well_plate_identifier
                  # DocsOf(Output[i])[3].sample_document.well_plate_identifier

(* C3: with a well count and a plate timestamp present, if some plate has a *)
(* result list and no plate map under its number, _get_model fails with the *)
(* error naming the barcode of the first such plate, and returns nothing.   *)
C3_MissingPlateMapFatal ==
    (pc = "done" /\ Created /\ data.number_of_wells # None /\ Timed # {}
        /\ Unmapped # {}) =>
        /\ raised = Some([cls |-> "AllotropyError",
                          msg |-> <<"Unable to find plate map of ",
                                    <<"PLT", CHOOSE i \in Unmapped :
                                                 \A k \in Unmapped : i <= k>> >>,
                          cause |-> Some("KeyError")])
        /\ model = None
        /\ Value(parsed).kind = "error"

\* the second plate has no plate map, after a first plate was accumulated
C3_Witness ==
    /\ pc = "done" /\ Created
    /\ Unmapped = {2}
    /\ measurement_docs_dict # <<>>
    /\ raised # None /\ model = None

(* C4: a plate whose result list is absent is skipped: the step raises      *)
(* nothing, also without a plate map under its number, leaves the           *)
(* accumulator as it is, and no returned measurement was built from it.     *)
C4_AbsentResultsSkipped ==
    [][/\ (pc = "plates" /\ plate_idx <= Len(data.plates)
              /\ data.plates[plate_idx].results = None) =>
            /\ measurement_docs_dict' = measurement_docs_dict
            /\ uuid_counter' = uuid_counter
            /\ raised' = None
            /\ pc' = "plates"
            /\ plate_idx' = plate_idx + 1
       /\ (model' # None) =>
            \A n \in 1..Len(AllDocs(Output', 1)) :
                PlateOfDoc(AllDocs(Output', 1)[n]).results # None]_vars

\* a plate without results and without plate map was passed, and a document
\* with wells of another plate was returned
C4_Witness ==
    /\ pc = "done" /\ Returned /\ Len(Output) > 0
    /\ \E i \in 1..Len(data.plates) :
           /\ data.plates[i].results = None
           /\ data.plates[i].plate_info.number \notin DOMAIN data.plate_maps

(* C5: with the well count absent, _get_model fails with the well-count     *)
(* error before anything else runs: no timestamp is resolved, no read type  *)
(* classified, no plate map looked up, no measurement or document built;    *)
(* the error wins over a missing measurement time and a missing plate map.  *)
C5_WellCountFirst ==
    (data.number_of_wells = None /\ Created /\ pc \notin {"parse", "get_model"}) =>
        /\ raised = Some([cls |-> "AllotropyError",
                          msg |-> <<"Unable to get number of the wells in the plate">>,
                          cause |-> None])
        /\ measurement_time = None
        /\ read_type = None
        /\ plate_idx = 1
        /\ measurement_docs_dict = <<>>
        /\ items = <<>>
        /\ uuid_counter = 0
        /\ model = None

\* no well count, no timestamp on any plate, and a plate without plate map
C5_Witness ==
    /\ pc = "done" /\ Created
    /\ data.number_of_wells = None
    /\ data.plates # <<>> /\ Timed = {}
    /\ Unmapped # {}
    /\ raised # None

(* C6: the measurement time is the earliest timestamp over all plates of    *)
(* the run, plates without result list included, and every returned         *)
(* WellDocument carries it; without any timestamp the conversion fails with *)
(* the measurement-time error and returns nothing, whatever the results and *)
(* the plate maps are.                                                      *)
C6_EarliestTime ==
    /\ (Created /\ pc \in {"read_type", "plates", "return"}) =>
           measurement_time # None
    /\ measurement_time # None =>
           /\ Value(measurement_time).cls = "TDateTimeValue"
           /\ \E i \in Timed :
                  Value(measurement_time).value
                      = data.plates[i].plate_info.measurement_time[1]
           /\ \A i \in Timed :
                  Value(measurement_time).value
                      <= data.plates[i].plate_info.measurement_time[1]
    /\ Returned =>
           \A i \in 1..Len(Output) :
               Output[i].measurement_aggregate_document.measurement_time
                   = Value(measurement_time)
    /\ Timed = {} => model = None
    /\ (Timed = {} /\ pc = "done" /\ Created /\ data.number_of_wells # None) =>
           raised = Some([cls |-> "AllotropyError",
                          msg |-> <<"Unable to find valid measurement date">>,
                          cause |-> None])

\* the earliest timestamp is on a later plate, one that has no result list
C6_Witness ==
    /\ pc = "done" /\ Returned /\ Len(Output) > 0
    /\ Len(data.plates) = 2
    /\ data.plates[1].plate_info.measurement_time = Some(3)
    /\ data.plates[2].plate_info.measurement_time = Some(1)
    /\ data.plates[2].results = None

\* the pattern occurs in the label name
Occurs(pat, name) ==
    \E a \in 1..Len(name) : \E b \in a..Len(name) : SubSeq(name, a, b) = pat

PatternOrder ==
    << <<PatABS, ABSORBANCE>>, <<PatAbsorbance, ABSORBANCE>>,
       <<PatLUM, LUMINESCENCE>>, <<PatLuminescence, LUMINESCENCE>>,
       <<PatFluorescence, FLUORESCENCE>> >>

Hits(name) == {i \in 1..Len(PatternOrder) : Occurs(PatternOrder[i][1], name)}

C8_InternalErrorsUnchanged ==
    (pc = "done" /\ raised # None) =>
        IF Created
        THEN parsed = Some([kind |-> "error", value |-> Value(raised)])
        ELSE /\ Value(parsed).kind = "error"
             /\ Value(parsed).value.cls = "AllotropyError"
             /\ Value(parsed).value.cause = raised

\* the settings record answers the emission filter the plate's id resolves to
SettingsMatchFilter(settings, plate) ==
    LET id == plate.plate_info.emission_filter_id
        table == data.labels.filters
    IN  IF id \in DOMAIN table
        THEN /\ settings.detector_wavelength_setting # None
             /\ settings.detector_wavelength_setting[1].value = table[id].wavelength
             /\ settings.detector_bandwidth_setting # None
             /\ settings.detector_bandwidth_setting[1].value = table[id].bandwidth
        ELSE /\ settings.detector_wavelength_setting = None
             /\ settings.detector_bandwidth_setting = None

(* C9: for every plate and every ReadType the device-control aggregate has  *)
(* exactly one settings record; its detector wavelength and bandwidth are   *)
(* absent when the plate's emission-filter-id resolves to no filter, and    *)
(* are the resolved filter's otherwise; every MeasurementRecord of the      *)
(* plate carries these settings.                                            *)
C9_DeviceControlSettings ==
    /\ \A i \in 1..Len(data.plates) : \A rt \in ReadType :
           LET agg == get_device_control_aggregate_document(data, data.plates[i], rt)
           IN  /\ Len(agg.device_control_document) = 1
               /\ SettingsMatchFilter(agg.device_control_document[1], data.plates[i])
    /\ \A n \in 1..Len(measurement_docs_dict) :
           \A j \in 1..Len(measurement_docs_dict[n].docs) :
               LET doc == measurement_docs_dict[n].docs[j]
                   dcd == doc.device_control_aggregate_document.device_control_document
               IN  /\ Len(dcd) = 1
                   /\ SettingsMatchFilter(dcd[1], PlateOfDoc(doc))
                   /\ dcd = get_device_control_aggregate_document(
                                data, PlateOfDoc(doc), Value(read_type)
                            ).device_control_document
    /\ Returned =>
           \A n \in 1..Len(AllDocs(Output, 1)) :
               LET doc == AllDocs(Output, 1)[n]
               IN  SettingsMatchFilter(
                       doc.device_control_aggregate_document.device_control_document[1],
                       PlateOfDoc(doc))

\* one returned measurement has no emission filter, another one a filter at 0 nm
C9_Witness ==
    /\ pc = "done" /\ Returned
    /\ \E a, b \in 1..Len(AllDocs(Output, 1)) :
           LET sa == AllDocs(Output, 1)[a].device_control_aggregate_document
                         .device_control_document[1]
               sb == AllDocs(Output, 1)[b].device_control_aggregate_document
                         .device_control_document[1]
           IN  /\ sa.detector_wavelength_setting = None
               /\ sb.detector_wavelength_setting # None
               /\ sb.detector_wavelength_setting[1].value = 0

\* a returned Model with every generated measurement identifier blanked
StripModel(m) ==
    [m EXCEPT !.plate_reader_aggregate_document.plate_reader_document =
        [i \in 1..Len(@) |->
            [@[i] EXCEPT !.measurement_aggregate_document.measurement_document =
                [j \in 1..Len(@) |-> [@[j] EXCEPT !.measurement_identifier = 0]]]]]

Identifiers(m) ==
    LET docs == AllDocs(m.plate_reader_aggregate_document.plate_reader_document, 1)
    IN  {docs[n].measurement_identifier : n \in 1..Len(docs)}

\* the second conversion of the RunData ended as the first one did
C10_SecondAsFirst ==
    (run = 2 /\ pc = "done") =>
        /\ raised = Value(first).raised
        /\ (raised # None) => parsed = Value(first).parsed
        /\ (model = None) <=> (Value(first).model = None)
        /\ Returned =>
               /\ StripModel(Value(model)) = StripModel(Value(Value(first).model))
               /\ Identifiers(Value(model))
                      \cap Identifiers(Value(Value(first).model)) = {}

(* C10: a second conversion of the same RunData ends as the first: both     *)
(* fail with the same error, or both return documents that agree in every   *)
(* field but the generated measurement identifiers (C10_SecondAsFirst, at   *)
(* the end of the second conversion); no step of a conversion modifies the  *)
(* RunData.                                                                 *)
C10_SameOutcomeTwice == [][data' = data /\ C10_SecondAsFirst']_vars

\* the second conversion returned two wells, one of them with two measurements
C10_Witness ==
    /\ run = 2 /\ pc = "done" /\ Returned
    /\ Len(Output) >= 2
    /\ \E i \in 1..Len(Output) : Len(DocsOf(Output[i])) >= 2

====
